---------------------------- MODULE Spec2Model ----------------------------
(***************************************************************************)
(* Transaction processing of the POS application:                          *)
(*   processPOSTransaction  (src/src/services/posService.ts)               *)
(*   updateDailySales       (src/src/services/dailySalesService.ts)        *)
(*                                                                         *)
(* Every call of processPOSTransaction is a process that runs from one     *)
(* await to the next in one step.  The store (Firestore) is the shared     *)
(* state: the products, pos_transactions, financial_transactions and       *)
(* daily_sales collections.                                                *)
(*                                                                         *)
(* runTransaction is the store's optimistic transaction: every             *)
(* firestoreTransaction.get reads the committed document and remembers     *)
(* its version, every firestoreTransaction.update stages a write, and the  *)
(* commit applies all staged writes together if no document that was read  *)
(* has changed since, and otherwise runs the update function again.  The   *)
(* store requires all reads of a transaction before its writes: a get      *)
(* issued after an update was staged is refused ("Firestore transactions   *)
(* require all reads to be executed before all writes."), and that error   *)
(* rejects runTransaction without a retry.                                 *)
(*                                                                         *)
(* The record phase is three awaited store calls and the read and write    *)
(* of updateDailySales; each of them can fail (RecordFailure).  The clock  *)
(* is read once for dateString and again for the dateString field of the   *)
(* Transaction record, and midnight can pass at any time (Tick).  The      *)
(* fields named "history" record what happened and steer nothing.          *)
(***************************************************************************)
EXTENDS Integers, Sequences, FiniteSets, TLC

\* ------------------------------------------------------------------ bounds
NumCalls   == 2      \* calls of processPOSTransaction in one behaviour
MaxCartLen == 2      \* items in one cart
MaxQty     == 2      \* largest quantity of a cart item
MaxStock   == 2      \* largest initial stock of a product
MaxAmount  == 2      \* largest totalAmount of a transaction
MaxDay     == 2      \* calendar days the clock passes through

Calls      == 1..NumCalls
Days       == 1..MaxDay

\* Product ids a cart can name; only the Catalog ids have a Product record.
ProductIds == {"P", "Q", "M"}
Catalog    == {"P", "Q"}

CartItems  == [product_id : ProductIds, quantity : 1..MaxQty]
Carts      == UNION {[1..n -> CartItems] : n \in 1..MaxCartLen}
\* transaction: Omit<POSTransaction, 'id'>, the fields the service reads
Transactions == [items : Carts, totalAmount : 1..MaxAmount]

NoTransaction == [items |-> <<>>, totalAmount |-> 0]
EmptyId       == 0          \* let transactionId = ''
NoDate        == 0
NoDailySales  == [exists |-> FALSE, totalSales |-> 0, transactionCount |-> 0]

\* No read operation was made yet.
NoRead == [op |-> "none"]

\* a field a document does not have
Undefined == -1
\* the sum of a number and undefined
NaN       == -2
\* the empty input field: useState<number | ''>('')
EmptyInput == -3

\* The POS screen as it is mounted.  selectedCashier is whether a cashier is
\* selected (null at first), pending is the call processPayment awaits
\* (0: none), receiptTimer the setTimeout that opens the receipt, and
\* lastOutcome how the last awaited call ended (history).
InitialScreen ==
    [isCheckoutDialogOpen  |-> FALSE,
     isProcessingPayment   |-> FALSE,
     isTransactionComplete |-> FALSE,
     isReceiptDialogOpen   |-> FALSE,
     paymentMethod         |-> "cash",
     cashReceived          |-> EmptyInput,
     selectedCashier       |-> FALSE,
     pending               |-> 0,
     receiptTimer          |-> FALSE,
     lastOutcome           |-> "none"]

\* useDailySales as it is constructed: useState(null), useState(true),
\* useState(null), useState(0).  date is the argument of the hook, now the
\* instant of Date.now(), effect whether the effect is due (the mount, or a
\* changed dependency), fetches the getDailySales calls awaited and fetched
\* how many were made.
InitialHook ==
    [date          |-> 1,
     sales         |-> NoDailySales,
     loading       |-> TRUE,
     error         |-> FALSE,
     lastFetchTime |-> 0,
     now           |-> 1,
     effect        |-> TRUE,
     fetches       |-> {},
     fetched       |-> 0]

\* The hooks and components that hold an onSnapshot subscription.
Consumers == {"usePOSTransactions", "CashierSelector", "CashierManagement"}

\* A consumer before it is mounted.  deps is the value of the effect's
\* dependencies, active the subscriptions not unsubscribed and not ended by
\* an error, subscribed how many were made, checks the getDocs reads awaited,
\* shown the subscription the displayed documents came from (0: an empty
\* list), reported the error state or toast, ended the subscriptions an error
\* ended (history).
InitialConsumer ==
    [mounted    |-> FALSE,
     deps       |-> 1,
     active     |-> {},
     subscribed |-> 0,
     checks     |-> {},
     shown      |-> 0,
     loading    |-> TRUE,
     reported   |-> FALSE,
     ended      |-> {}]

VARIABLES
    products,                \* products/{id}: exists, stock, version
    pos_transactions,        \* pos_transactions, in the order of creation
    financial_transactions,  \* financial_transactions, in the order of creation
    daily_sales,             \* daily_sales/{date}
    day,                     \* the calendar day of the clock
    call,                    \* the state of every processPOSTransaction call
    initialStock,            \* the stock at the start (history)
    cart,                    \* the cart of the POS screen (useState cart)
    read,                    \* the last read operation and what it returned
    screen,                  \* the other state of the POS screen (useState)
    hook,                    \* useDailySales: its state and its fetches
    consumer                 \* the consumers of live subscriptions

vars == <<products, pos_transactions, financial_transactions, daily_sales,
          day, call, initialStock, cart, read, screen, hook, consumer>>

\* The hooks and components that read the store.
views == <<hook, consumer>>

\* The state of the screens: untouched by the service.
client == <<cart, read, screen, views>>

store == <<products, pos_transactions, financial_transactions, daily_sales>>

Stock(p) == products[p].stock

StockOf == [p \in ProductIds |-> products[p].stock]

IdleCall ==
    [pc            |-> "idle",
     transaction   |-> NoTransaction,
     item          |-> 1,            \* position of the for loop
     reads         |-> {},           \* <<product id, version>> of every get
     writes        |-> <<>>,         \* staged updates
     error         |-> "none",
     transactionId |-> EmptyId,
     dateString    |-> NoDate,
     existingData  |-> NoDailySales,
     toast         |-> FALSE,
     stockBefore   |-> [p \in ProductIds |-> 0],
     stockAfter    |-> [p \in ProductIds |-> 0],
     wroteDaily    |-> FALSE,
     committed     |-> FALSE,        \* the stock phase committed (history)
     retried       |-> FALSE,        \* the update function ran again (history)
     overlapped    |-> FALSE,        \* made while another call ran (history)
     failedAt      |-> "none"]       \* the record-phase step that failed (history)

Init ==
    /\ \E s \in [Catalog -> 0..MaxStock] :
          /\ products = [p \in ProductIds |->
                           IF p \in Catalog
                           THEN [exists |-> TRUE, stock |-> s[p], version |-> 1]
                           ELSE [exists |-> FALSE, stock |-> 0, version |-> 0]]
          /\ initialStock = [p \in ProductIds |-> IF p \in Catalog THEN s[p] ELSE 0]
    /\ pos_transactions = <<>>
    /\ financial_transactions = <<>>
    /\ daily_sales = [d \in Days |-> NoDailySales]
    /\ day = 1
    /\ call = [c \in Calls |-> IdleCall]
    /\ cart = <<>>
    /\ read = NoRead
    /\ screen = InitialScreen
    /\ hook = InitialHook
    /\ consumer = [k \in Consumers |-> InitialConsumer]

\* ------------------------------------------------------ the stock phase

InFlight(c) == call[c].pc \notin {"idle", "returned", "thrown"}

\* processPOSTransaction(transaction) is entered; calls are numbered in
\* the order they are made.
Enter(c, t) ==
    /\ call[c].pc = "idle"
    /\ IF c = 1 THEN TRUE ELSE call[c - 1].pc # "idle"
    /\ call' = [call EXCEPT ![c] = [IdleCall EXCEPT
          !.pc = "txn", !.transaction = t,
          !.overlapped = \E o \in Calls : InFlight(o)]]

\* processPOSTransaction(transaction): the call is made by some caller.
Start(c, t) ==
    /\ Enter(c, t)
    /\ UNCHANGED <<store, day, initialStock, client>>

CurrentItem(c) == call[c].transaction.items[call[c].item]

InLoop(c) ==
    /\ call[c].pc = "txn"
    /\ call[c].item <= Len(call[c].transaction.items)

ReadAfterWrite_Allowed(writes) == FALSE

\* The store refuses a read once a write is staged.
ReadAfterWrite(writes) == writes # <<>>

\* !productDoc.exists()
NotFound(pid) == ~products[pid].exists

InsufficientStock_Never(stock, quantity) == FALSE

\* productData.stock < item.quantity
InsufficientStock(stock, quantity) == stock < quantity

\* stock: productData.stock - item.quantity
NewStock(stock, quantity) == stock - quantity

Reject_IntoRecordPhase(c, e) ==
    /\ call' = [call EXCEPT ![c].pc = "addTransaction", ![c].error = e,
                            ![c].writes = <<>>, ![c].dateString = day,
                            ![c].stockBefore = StockOf, ![c].stockAfter = StockOf]
    /\ UNCHANGED <<products, pos_transactions, financial_transactions,
                   daily_sales, day, initialStock, client>>

\* An error thrown inside the update function rejects runTransaction; the
\* outer catch logs it and throws it again.  Nothing was committed.
Reject(c, e) ==
    /\ call' = [call EXCEPT ![c].pc = "thrown", ![c].error = e,
                            ![c].writes = <<>>,
                            ![c].stockBefore = StockOf, ![c].stockAfter = StockOf]
    /\ UNCHANGED <<store, day, initialStock, client>>

GetRefused(c) ==
    /\ InLoop(c)
    /\ ReadAfterWrite(call[c].writes)
    /\ Reject(c, "reads_before_writes")

GetNotFound(c) ==
    /\ InLoop(c)
    /\ ~ReadAfterWrite(call[c].writes)
    /\ NotFound(CurrentItem(c).product_id)
    /\ Reject(c, "not_found")

GetInsufficient(c) ==
    /\ InLoop(c)
    /\ ~ReadAfterWrite(call[c].writes)
    /\ ~NotFound(CurrentItem(c).product_id)
    /\ InsufficientStock(Stock(CurrentItem(c).product_id), CurrentItem(c).quantity)
    /\ Reject(c, "insufficient_stock")

\* The get succeeded and the stock suffices: stage the update of the stock.
GetAndUpdate(c) ==
    LET pid == CurrentItem(c).product_id
        qty == CurrentItem(c).quantity
    IN  /\ InLoop(c)
        /\ ~ReadAfterWrite(call[c].writes)
        /\ ~NotFound(pid)
        /\ ~InsufficientStock(Stock(pid), qty)
        /\ call' = [call EXCEPT
              ![c].reads  = @ \cup {<<pid, products[pid].version>>},
              ![c].writes = Append(@, [product_id |-> pid,
                                       stock |-> NewStock(Stock(pid), qty)]),
              ![c].item   = @ + 1]
        /\ UNCHANGED <<store, day, initialStock, client>>

ReadsCurrent_Unchecked(reads) == TRUE

\* No document read by the transaction was written since it was read.
ReadsCurrent(reads) == \A r \in reads : products[r[1]].version = r[2]

RECURSIVE ApplyWrites(_, _)
ApplyWrites(docs, writes) ==
    IF writes = <<>> THEN docs
    ELSE LET w == Head(writes)
         IN  ApplyWrites([docs EXCEPT ![w.product_id].stock = w.stock,
                                      ![w.product_id].version = @ + 1],
                         Tail(writes))

AtCommit(c) ==
    /\ call[c].pc = "txn"
    /\ call[c].item > Len(call[c].transaction.items)

\* The update function returned: the staged writes are committed together.
\* The call goes on to the record phase and takes the date string.
Commit(c) ==
    /\ AtCommit(c)
    /\ ReadsCurrent(call[c].reads)
    /\ products' = ApplyWrites(products, call[c].writes)
    /\ call' = [call EXCEPT
          ![c].pc = "addTransaction",
          ![c].committed = TRUE,
          ![c].stockBefore = StockOf,
          ![c].stockAfter  = [p \in ProductIds |-> products'[p].stock],
          ![c].dateString  = day]
    /\ UNCHANGED <<pos_transactions, financial_transactions, daily_sales, day,
                   initialStock, client>>

\* A document that was read has changed: the update function runs again.
Retry(c) ==
    /\ AtCommit(c)
    /\ ~ReadsCurrent(call[c].reads)
    /\ call' = [call EXCEPT ![c].item = 1, ![c].reads = {}, ![c].writes = <<>>,
                            ![c].retried = TRUE]
    /\ UNCHANGED <<store, day, initialStock, client>>

\* ----------------------------------------------------- the record phase

\* The store assigns the id of a new document.
NewId(collection) == Len(collection) + 1

AddTransaction_IdNotKept(c) ==
    /\ call[c].pc = "addTransaction"
    /\ pos_transactions' = Append(pos_transactions,
          [id          |-> NewId(pos_transactions),
           items       |-> call[c].transaction.items,
           totalAmount |-> call[c].transaction.totalAmount,
           dateString  |-> day,
           by          |-> c])
    /\ call' = [call EXCEPT ![c].pc = "addFinancial"]
    /\ UNCHANGED <<products, financial_transactions, daily_sales, day, initialStock, client>>

AddTransaction_Overwrite(c) ==
    /\ call[c].pc = "addTransaction"
    /\ pos_transactions' = <<[id          |-> NewId(pos_transactions),
                              items       |-> call[c].transaction.items,
                              totalAmount |-> call[c].transaction.totalAmount,
                              dateString  |-> day,
                              by          |-> c]>>
    /\ call' = [call EXCEPT ![c].pc = "addFinancial",
                            ![c].transactionId = NewId(pos_transactions)]
    /\ UNCHANGED <<products, financial_transactions, daily_sales, day, initialStock, client>>

\* addDoc(collection(db, 'pos_transactions'), {...}); transactionId = ref.id
AddTransaction(c) ==
    /\ call[c].pc = "addTransaction"
    /\ pos_transactions' = Append(pos_transactions,
          [id          |-> NewId(pos_transactions),
           items       |-> call[c].transaction.items,
           totalAmount |-> call[c].transaction.totalAmount,
           dateString  |-> day,
           by          |-> c])
    /\ call' = [call EXCEPT ![c].pc = "addFinancial",
                            ![c].transactionId = NewId(pos_transactions)]
    /\ UNCHANGED <<products, financial_transactions, daily_sales, day, initialStock, client>>

AddFinancial_BeforeTransaction(c) ==
    /\ call[c].pc = "addTransaction"
    /\ \A i \in 1..Len(financial_transactions) : financial_transactions[i].by # c
    /\ financial_transactions' = Append(financial_transactions,
          [transactionId |-> call[c].transactionId,
           date          |-> call[c].dateString,
           category      |-> "sales",
           type          |-> "income",
           amount        |-> call[c].transaction.totalAmount,
           by            |-> c])
    /\ UNCHANGED <<products, pos_transactions, daily_sales, day, initialStock, call,
                   client>>

\* addDoc(collection(db, 'financial_transactions'), {...})
AddFinancial(c) ==
    /\ call[c].pc = "addFinancial"
    /\ financial_transactions' = Append(financial_transactions,
          [transactionId |-> call[c].transactionId,
           date          |-> call[c].dateString,
           category      |-> "sales",
           type          |-> "income",
           amount        |-> call[c].transaction.totalAmount,
           by            |-> c])
    /\ call' = [call EXCEPT ![c].pc = "getDaily"]
    /\ UNCHANGED <<products, pos_transactions, daily_sales, day, initialStock, client>>

\* updateDailySales: const docSnapshot = await getDoc(dailySalesRef)
GetDaily(c) ==
    /\ call[c].pc = "getDaily"
    /\ call' = [call EXCEPT ![c].pc = "setDaily",
                            ![c].existingData = daily_sales[call[c].dateString]]
    /\ UNCHANGED <<store, day, initialStock, client>>

NewDailySales_Overwrite(existingData, amount) ==
    [exists |-> TRUE, totalSales |-> amount, transactionCount |-> 1]

\* The document updateDailySales writes, from the snapshot it read.
NewDailySales(existingData, amount) ==
    IF existingData.exists
    THEN [exists |-> TRUE,
          totalSales |-> existingData.totalSales + amount,
          transactionCount |-> existingData.transactionCount + 1]
    ELSE [exists |-> TRUE, totalSales |-> amount, transactionCount |-> 1]

SetDaily_FromCurrent(c) ==
    /\ call[c].pc = "setDaily"
    /\ daily_sales' = [daily_sales EXCEPT ![call[c].dateString] =
          NewDailySales(daily_sales[call[c].dateString],
                        call[c].transaction.totalAmount)]
    /\ call' = [call EXCEPT ![c].pc = "returned", ![c].wroteDaily = TRUE]
    /\ UNCHANGED <<products, pos_transactions, financial_transactions, day,
                   initialStock, client>>

\* updateDailySales: await setDoc(dailySalesRef, {...}); then the call
\* returns transactionId.
SetDaily(c) ==
    /\ call[c].pc = "setDaily"
    /\ daily_sales' = [daily_sales EXCEPT ![call[c].dateString] =
          NewDailySales(call[c].existingData, call[c].transaction.totalAmount)]
    /\ call' = [call EXCEPT ![c].pc = "returned", ![c].wroteDaily = TRUE]
    /\ UNCHANGED <<products, pos_transactions, financial_transactions, day,
                   initialStock, client>>

InRecordPhase(c) ==
    call[c].pc \in {"addTransaction", "addFinancial", "getDaily", "setDaily"}

RecordFailure_Throws(c) ==
    /\ InRecordPhase(c)
    /\ call' = [call EXCEPT ![c].pc = "thrown", ![c].error = "record",
                            ![c].failedAt = call[c].pc]
    /\ UNCHANGED <<store, day, initialStock, client>>

RecordFailure_Continues(c) ==
    /\ InRecordPhase(c)
    /\ call' = [call EXCEPT ![c].pc = IF call[c].pc = "addTransaction"
                                      THEN "addFinancial" ELSE "returned",
                            ![c].toast = TRUE,
                            ![c].failedAt = call[c].pc]
    /\ UNCHANGED <<store, day, initialStock, client>>

\* A write or read of the record phase fails: the inner catch shows the
\* toast and the call returns transactionId as it is.
RecordFailure(c) ==
    /\ InRecordPhase(c)
    /\ call' = [call EXCEPT ![c].pc = "returned", ![c].toast = TRUE,
                            ![c].failedAt = call[c].pc]
    /\ UNCHANGED <<store, day, initialStock, client>>

\* The clock passes midnight.
Tick ==
    /\ day < MaxDay
    /\ day' = day + 1
    /\ UNCHANGED <<store, call, initialStock, client>>

Next ==
    \/ \E c \in Calls, t \in Transactions : Start(c, t)
    \/ \E c \in Calls : GetRefused(c)
    \/ \E c \in Calls : GetNotFound(c)
    \/ \E c \in Calls : GetInsufficient(c)
    \/ \E c \in Calls : GetAndUpdate(c)
    \/ \E c \in Calls : Commit(c)
    \/ \E c \in Calls : Retry(c)
    \/ \E c \in Calls : AddTransaction(c)
    \/ \E c \in Calls : AddFinancial(c)
    \/ \E c \in Calls : GetDaily(c)
    \/ \E c \in Calls : SetDaily(c)
    \/ \E c \in Calls : RecordFailure(c)
    \/ Tick

Spec == Init /\ [][Next]_vars

TypeOK ==
    /\ \A p \in ProductIds : products[p].stock \in Int
    /\ day \in Days
    /\ \A c \in Calls : call[c].pc \in {"idle", "txn", "addTransaction",
          "addFinancial", "getDaily", "setDaily", "returned", "thrown"}

\* ------------------------------------------------------------ properties

RECURSIVE SumQty(_, _)
SumQty(items, p) ==
    IF items = <<>> THEN 0
    ELSE (IF Head(items).product_id = p THEN Head(items).quantity ELSE 0)
         + SumQty(Tail(items), p)

\* The quantity of product p the cart of call c asks for.
Requested(c, p) == SumQty(call[c].transaction.items, p)

Items(c) == call[c].transaction.items

\* The stock phase of call c is over, by a commit or by an error.
Resolved(c) == call[c].committed \/ call[c].pc = "thrown"

TransactionsBy(c) == {i \in 1..Len(pos_transactions) : pos_transactions[i].by = c}
FinancialsBy(c) ==
    {i \in 1..Len(financial_transactions) : financial_transactions[i].by = c}

RECURSIVE SumRequested(_, _)
SumRequested(cs, p) ==
    IF cs = {} THEN 0
    ELSE LET c == CHOOSE x \in cs : TRUE
         IN  Requested(c, p) + SumRequested(cs \ {c}, p)

CommittedCalls == {c \in Calls : call[c].committed}

\* The stock is the initial stock less the whole carts of the committed calls.
StockAccounted ==
    \A p \in ProductIds :
        products[p].stock = initialStock[p] - SumRequested(CommittedCalls, p)

\* C1: every product's stock is >= 0 in every reachable state, whatever
\* calls were made, overlapping or not, succeeded or failed.
C1_StockNonNegative == \A p \in ProductIds : products[p].stock >= 0

\* Two overlapping calls sold a product out.
C1_Witness ==
    \E c \in Calls, p \in Catalog :
        /\ call[c].committed /\ call[c].retried
        /\ initialStock[p] > 0 /\ products[p].stock = 0
        /\ Requested(c, p) > 0

\* C2 (as claimed): a cart of existing products with an item whose quantity
\* exceeds the stock is refused with the insufficient-stock error, and the
\* stock is left as it was.
C2_Claimed ==
    \A c \in Calls :
        ( /\ Resolved(c)
          /\ \A i \in DOMAIN Items(c) : Items(c)[i].product_id \in Catalog
          /\ \E i \in DOMAIN Items(c) :
                Items(c)[i].quantity > call[c].stockBefore[Items(c)[i].product_id] )
        => /\ call[c].pc = "thrown"
           /\ call[c].error = "insufficient_stock"
           /\ call[c].stockAfter = call[c].stockBefore

\* C3 (as claimed): a cart that names a product without a record, and whose
\* other items are in stock, is refused with the not-found error, and the
\* stock is left as it was.
C3_Claimed ==
    \A c \in Calls :
        ( /\ Resolved(c)
          /\ \E i \in DOMAIN Items(c) : Items(c)[i].product_id \notin Catalog
          /\ \A i \in DOMAIN Items(c) :
                Items(c)[i].product_id \in Catalog =>
                Items(c)[i].quantity <= call[c].stockBefore[Items(c)[i].product_id] )
        => /\ call[c].pc = "thrown"
           /\ call[c].error = "not_found"
           /\ call[c].stockAfter = call[c].stockBefore

\* C4 (as claimed): a cart of existing products that asks of no product more
\* than its stock is processed: the call does not throw, the stock of every
\* product goes down by what the cart asks of it, and the id returned when
\* no record write failed is not empty.
C4_Claimed ==
    \A c \in Calls :
        ( /\ Resolved(c)
          /\ \A i \in DOMAIN Items(c) : Items(c)[i].product_id \in Catalog
          /\ \A p \in ProductIds : Requested(c, p) <= call[c].stockBefore[p] )
        => /\ call[c].pc # "thrown"
           /\ \A p \in ProductIds :
                 call[c].stockAfter[p] = call[c].stockBefore[p] - Requested(c, p)
           /\ (call[c].pc = "returned" /\ ~call[c].toast) =>
                 call[c].transactionId # EmptyId

\* C5: a call refused for a missing product or for insufficient stock has
\* created no Transaction record and no Financial Ledger Entry and has not
\* written a Daily Aggregate.
C5_RejectedCallWritesNoRecord ==
    \A c \in Calls :
        call[c].error \in {"not_found", "insufficient_stock"} =>
            /\ TransactionsBy(c) = {}
            /\ FinancialsBy(c) = {}
            /\ ~call[c].wroteDaily
            /\ ~call[c].toast

\* Both precondition failures happened, next to a call that wrote records.
C5_Witness ==
    /\ \E c \in Calls : call[c].pc = "thrown" /\ call[c].error = "insufficient_stock"
    /\ \E c \in Calls : call[c].pc = "thrown" /\ call[c].error = "not_found"

\* C6: the stock phases of overlapping calls are serialized: the stock is
\* the initial stock less the whole carts of exactly the committed calls, a
\* committed call asked no more than the stock it found, and its whole cart
\* was taken off that stock in one step.
C6_StockPhasesSerialized ==
    /\ StockAccounted
    /\ \A c \in CommittedCalls : \A p \in ProductIds :
          /\ Requested(c, p) <= call[c].stockBefore[p]
          /\ call[c].stockAfter[p] = call[c].stockBefore[p] - Requested(c, p)

\* Two calls for the same product overlapped; one had to run again, and
\* both committed.
C6_Witness ==
    \E a \in Calls, b \in Calls, p \in Catalog :
        /\ a # b
        /\ call[a].committed /\ call[b].committed
        /\ call[b].retried
        /\ Requested(a, p) > 0 /\ Requested(b, p) > 0

\* C7: within one call the stock phase is over before the record phase
\* writes, and the records are written in the order Transaction, Financial
\* Ledger Entry, Daily Aggregate: no record of a call exists without its
\* committed stock decrement and without the records before it.
C7_StockPhaseThenRecordsInOrder ==
    \A c \in Calls :
        /\ (InRecordPhase(c) \/ TransactionsBy(c) # {}) =>
              /\ call[c].committed
              /\ call[c].pc # "txn"
              /\ \A p \in ProductIds :
                    call[c].stockAfter[p] = call[c].stockBefore[p] - Requested(c, p)
        /\ FinancialsBy(c) # {} => TransactionsBy(c) # {}
        /\ call[c].wroteDaily => FinancialsBy(c) # {}

\* A call wrote all three records.
C7_Witness ==
    \E c \in Calls :
        /\ call[c].wroteDaily
        /\ TransactionsBy(c) # {} /\ FinancialsBy(c) # {}
        /\ \E p \in Catalog : Requested(c, p) > 0

\* C8: a failure of the record phase after the commit does not make the
\* call throw: the call shows the warning and returns, and the committed
\* stock decrement stays.
C8_RecordFailureIsWarning ==
    \A c \in Calls :
        call[c].failedAt # "none" =>
            /\ call[c].committed
            /\ call[c].pc = "returned"
            /\ call[c].toast
            /\ call[c].error = "none"
            /\ \A p \in ProductIds : products[p].stock <= call[c].stockAfter[p]
            /\ StockAccounted

\* Calls failed at the Transaction write and at a later record step, after
\* their stock decrement.
C8_Witness ==
    /\ \E c \in Calls, p \in Catalog :
          /\ call[c].failedAt = "addTransaction"
          /\ Requested(c, p) > 0
          /\ products[p].stock < initialStock[p]
    /\ \E c \in Calls : call[c].failedAt \in {"addFinancial", "getDaily", "setDaily"}

\* C9: a call that returns gives a non-empty id exactly if it persisted a
\* Transaction record, the id is then the id the store gave that record, and
\* the id is empty exactly if the Transaction write failed.
C9_ReturnedId ==
    \A c \in Calls :
        call[c].pc = "returned" =>
            /\ call[c].transactionId # EmptyId <=> TransactionsBy(c) # {}
            /\ \A i \in TransactionsBy(c) :
                  pos_transactions[i].id = call[c].transactionId
            /\ call[c].transactionId = EmptyId <=> call[c].failedAt = "addTransaction"

\* One call returned an id, another returned the empty id.
C9_Witness ==
    /\ \E c \in Calls : call[c].pc = "returned" /\ call[c].transactionId # EmptyId
    /\ \E c \in Calls : call[c].pc = "returned" /\ call[c].transactionId = EmptyId

\* The calls that returned without a warning and took date d.
SalesOn(d) ==
    {c \in Calls : call[c].pc = "returned" /\ ~call[c].toast /\ call[c].dateString = d}

RECURSIVE SumAmount(_)
SumAmount(cs) ==
    IF cs = {} THEN 0
    ELSE LET c == CHOOSE x \in cs : TRUE
         IN  call[c].transaction.totalAmount + SumAmount(cs \ {c})

\* No call is running, no call overlapped another, no record phase failed,
\* and every Transaction is dated the day its call took.
Sequential ==
    /\ \A c \in Calls : ~InFlight(c) /\ ~call[c].overlapped /\ ~call[c].toast
    /\ \A i \in 1..Len(pos_transactions) :
          pos_transactions[i].dateString = call[pos_transactions[i].by].dateString

TransactionsOn(d) ==
    {i \in 1..Len(pos_transactions) : pos_transactions[i].dateString = d}

RECURSIVE SumTotalAmount(_)
SumTotalAmount(is) ==
    IF is = {} THEN 0
    ELSE LET i == CHOOSE x \in is : TRUE
         IN  pos_transactions[i].totalAmount + SumTotalAmount(is \ {i})

\* C11 (as claimed): whenever no call is running, the Daily Aggregate of
\* every date holds the sum of totalAmount and the number of the persisted
\* Transactions of that date, and a date without Transactions has none.
C11_Claimed ==
    (\A c \in Calls : ~InFlight(c)) =>
        \A d \in Days :
            daily_sales[d] =
                IF TransactionsOn(d) = {} THEN NoDailySales
                ELSE [exists |-> TRUE,
                      totalSales |-> SumTotalAmount(TransactionsOn(d)),
                      transactionCount |-> Cardinality(TransactionsOn(d))]

\* Calls a and b both wrote the aggregate of one date from the same
\* snapshot, both returned without a warning, and no other call wrote it.
BothReadBeforeEitherWrote(a, b) ==
    /\ a # b
    /\ call[a].pc = "returned" /\ call[b].pc = "returned"
    /\ call[a].wroteDaily /\ call[b].wroteDaily
    /\ call[a].dateString = call[b].dateString
    /\ call[a].existingData = call[b].existingData
    /\ \A o \in Calls \ {a, b} :
          ~(InFlight(o) \/ call[o].wroteDaily) \/ call[o].dateString # call[a].dateString

\* C12: updateDailySales reads and then writes: when two calls read the
\* aggregate of one date before either wrote it, the aggregate afterwards
\* holds one of the two increments only (the count one higher than the
\* snapshot, the total one amount higher), and neither call has an error.
C12_LostUpdate ==
    \A a \in Calls, b \in Calls :
        BothReadBeforeEitherWrote(a, b) =>
            LET d   == call[a].dateString
                old == call[a].existingData
            IN  /\ daily_sales[d].transactionCount = old.transactionCount + 1
                /\ daily_sales[d].totalSales \in
                      {old.totalSales + call[a].transaction.totalAmount,
                       old.totalSales + call[b].transaction.totalAmount}
                /\ ~call[a].toast /\ ~call[b].toast
                /\ call[a].error = "none" /\ call[b].error = "none"

\* Two calls with different amounts lost one of their updates.
C12_Witness ==
    \E a \in Calls, b \in Calls :
        /\ BothReadBeforeEitherWrote(a, b)
        /\ call[a].transaction.totalAmount # call[b].transaction.totalAmount
        /\ Cardinality(TransactionsOn(call[a].dateString)) >= 2

\* The Financial Ledger Entries that reference Transaction i.
EntriesOf(i) ==
    {j \in 1..Len(financial_transactions) :
        financial_transactions[j].transactionId = pos_transactions[i].id}

\* C14 (as claimed): once a call has returned, every Transaction record it
\* persisted has exactly one Financial Ledger Entry referencing its id.
C14_Claimed ==
    \A c \in Calls :
        call[c].pc = "returned" =>
            \A i \in TransactionsBy(c) : Cardinality(EntriesOf(i)) = 1


\* ------------------------------------------------------ the POS screen

\* product.price of the products the screen lists
Price == [p \in ProductIds |-> IF p = "P" THEN 1 ELSE 2]

\* cart.findIndex(item => item.id === id), 0 when there is none
RECURSIVE IndexOf(_, _)
IndexOf(items, id) ==
    IF items = <<>> THEN 0
    ELSE IF Head(items).id = id THEN 1
    ELSE IF IndexOf(Tail(items), id) = 0 THEN 0
    ELSE 1 + IndexOf(Tail(items), id)

\* cart.filter(item => item.id !== id)
RECURSIVE Without(_, _)
Without(items, id) ==
    IF items = <<>> THEN <<>>
    ELSE IF Head(items).id = id THEN Without(Tail(items), id)
    ELSE <<Head(items)>> \o Without(Tail(items), id)

\* cart.reduce((total, item) => total + item.totalPrice, 0)
RECURSIVE cartTotal(_)
cartTotal(items) ==
    IF items = <<>> THEN 0
    ELSE Head(items).totalPrice + cartTotal(Tail(items))

\* { id: product.id, product, quantity: 1, price: product.price,
\*   totalPrice: product.price }
NewCartItem(p) ==
    [id |-> p, product_id |-> p, quantity |-> 1, price |-> Price[p],
     totalPrice |-> Price[p]]

LineTotal_PriceOnly(quantity, price) == price

\* totalPrice = quantity * price
LineTotal(quantity, price) == quantity * price

\* addToCart(product): one more of a product in the cart, or a new line.
addToCart(p) ==
    /\ LET i == IndexOf(cart, p)
       IN  IF i # 0
           THEN /\ cart[i].quantity < MaxQty
                /\ cart' = [cart EXCEPT
                      ![i].quantity = cart[i].quantity + 1,
                      ![i].totalPrice = LineTotal(cart[i].quantity + 1, cart[i].price)]
           ELSE cart' = Append(cart, NewCartItem(p))
    /\ UNCHANGED <<store, day, call, initialStock, read, screen, views>>

\* removeFromCart(id)
removeFromCart(id) ==
    /\ IndexOf(cart, id) # 0
    /\ cart' = Without(cart, id)
    /\ UNCHANGED <<store, day, call, initialStock, read, screen, views>>

\* updateQuantity(id, change): the quantity never goes below 0, and a line
\* that reaches 0 is removed.
updateQuantity(id, change) ==
    /\ IndexOf(cart, id) # 0
    /\ LET i == IndexOf(cart, id)
           newQuantity == IF cart[i].quantity + change < 0 THEN 0
                          ELSE cart[i].quantity + change
       IN  /\ newQuantity <= MaxQty
           /\ IF newQuantity = 0
              THEN cart' = Without(cart, id)
              ELSE cart' = [cart EXCEPT
                      ![i].quantity = newQuantity,
                      ![i].totalPrice = LineTotal(newQuantity, cart[i].price)]
    /\ UNCHANGED <<store, day, call, initialStock, read, screen, views>>

\* clearCart()
clearCart ==
    /\ cart # <<>>
    /\ cart' = <<>>
    /\ UNCHANGED <<store, day, call, initialStock, read, screen, views>>

\* typeof cashReceived === 'number'
IsNumber(x) == x # EmptyInput

InsufficientCash_Never(method, received, total) == FALSE

\* paymentMethod === 'cash' &&
\* (typeof cashReceived !== 'number' || cashReceived < cartTotal)
InsufficientCash(method, received, total) ==
    method = "cash" /\ (~IsNumber(received) \/ received < total)

\* typeof cashReceived === 'number' ? Math.max(0, cashReceived - cartTotal) : 0
changeAmount ==
    IF IsNumber(screen.cashReceived)
    THEN (IF screen.cashReceived - cartTotal(cart) < 0 THEN 0
          ELSE screen.cashReceived - cartTotal(cart))
    ELSE 0

\* The transaction processPayment builds from the cart.
CartTransaction ==
    [items |-> [i \in 1..Len(cart) |->
                  [product_id |-> cart[i].product_id, quantity |-> cart[i].quantity,
                   price |-> cart[i].price, totalPrice |-> cart[i].totalPrice]],
     totalAmount   |-> cartTotal(cart),
     paymentMethod |-> screen.paymentMethod,
     cashReceived  |-> IF screen.paymentMethod = "cash" THEN screen.cashReceived
                       ELSE Undefined,
     change        |-> IF screen.paymentMethod = "cash" THEN changeAmount
                       ELSE Undefined]

\* loadCashiers(), on mount: the first active cashier becomes the selected
\* cashier; no cashier is selected when there is none or the read fails.
loadCashiers ==
    /\ ~screen.selectedCashier
    /\ screen' = [screen EXCEPT !.selectedCashier = TRUE]
    /\ UNCHANGED <<store, day, call, initialStock, cart, read, views>>

\* handleCheckout(): opens the checkout dialog for a cart that is not empty
\* once a cashier is selected.
handleCheckout ==
    /\ cart # <<>>
    /\ screen.selectedCashier
    /\ ~screen.isCheckoutDialogOpen
    /\ screen' = [screen EXCEPT !.isCheckoutDialogOpen = TRUE]
    /\ UNCHANGED <<store, day, call, initialStock, cart, read, views>>

\* Batal, or the dialog is dismissed: onOpenChange={setIsCheckoutDialogOpen}
closeCheckoutDialog ==
    /\ screen.isCheckoutDialogOpen
    /\ screen' = [screen EXCEPT !.isCheckoutDialogOpen = FALSE]
    /\ UNCHANGED <<store, day, call, initialStock, cart, read, views>>

\* The payment form is shown: {!isTransactionComplete ? (...)}
FormShown == screen.isCheckoutDialogOpen /\ ~screen.isTransactionComplete

\* onValueChange={setPaymentMethod}
setPaymentMethod(method) ==
    /\ FormShown
    /\ screen.paymentMethod # method
    /\ screen' = [screen EXCEPT !.paymentMethod = method]
    /\ UNCHANGED <<store, day, call, initialStock, cart, read, views>>

\* onChange={(e) => setCashReceived(...)}
setCashReceived(received) ==
    /\ FormShown
    /\ screen.paymentMethod = "cash"
    /\ screen.cashReceived # received
    /\ screen' = [screen EXCEPT !.cashReceived = received]
    /\ UNCHANGED <<store, day, call, initialStock, cart, read, views>>

PayButtonEnabled_Always == TRUE

\* The button Selesaikan Pembayaran is shown and not disabled.
PayButtonEnabled ==
    /\ FormShown
    /\ ~screen.isProcessingPayment
    /\ ~InsufficientCash(screen.paymentMethod, screen.cashReceived, cartTotal(cart))

\* processPayment(): refuses an empty cart and insufficient cash, sets
\* isProcessingPayment and calls processPOSTransaction with the cart.
processPayment(c) ==
    /\ PayButtonEnabled
    /\ cart # <<>>
    /\ ~InsufficientCash(screen.paymentMethod, screen.cashReceived, cartTotal(cart))
    /\ screen.selectedCashier
    /\ Enter(c, CartTransaction)
    /\ screen' = [screen EXCEPT !.isProcessingPayment = TRUE, !.pending = c]
    /\ UNCHANGED <<store, day, initialStock, cart, read, views>>

\* processPayment() after the await: a call that returned shows the success
\* panel and starts the timer of the receipt; a call that threw shows the
\* toast; finally isProcessingPayment is reset.
paymentSettled ==
    /\ screen.pending # 0
    /\ call[screen.pending].pc \in {"returned", "thrown"}
    /\ screen' = IF call[screen.pending].pc = "returned"
                 THEN [screen EXCEPT !.isTransactionComplete = TRUE,
                                     !.receiptTimer = TRUE,
                                     !.isProcessingPayment = FALSE,
                                     !.pending = 0,
                                     !.lastOutcome = "returned"]
                 ELSE [screen EXCEPT !.isProcessingPayment = FALSE,
                                     !.pending = 0,
                                     !.lastOutcome = "thrown"]
    /\ UNCHANGED <<store, day, call, initialStock, cart, read, views>>

\* setTimeout(() => setIsReceiptDialogOpen(true), 500)
receiptTimerFires ==
    /\ screen.receiptTimer
    /\ screen' = [screen EXCEPT !.receiptTimer = FALSE, !.isReceiptDialogOpen = TRUE]
    /\ UNCHANGED <<store, day, call, initialStock, cart, read, views>>

\* The screen after completeTransaction().
Completed(s) ==
    [s EXCEPT !.isCheckoutDialogOpen = FALSE,
              !.isTransactionComplete = FALSE,
              !.cashReceived = EmptyInput,
              !.paymentMethod = "cash",
              !.lastOutcome = "completed"]

\* Tutup on the success panel: completeTransaction()
completeTransaction ==
    /\ screen.isCheckoutDialogOpen
    /\ screen.isTransactionComplete
    /\ screen' = Completed(screen)
    /\ cart' = <<>>
    /\ UNCHANGED <<store, day, call, initialStock, read, views>>

\* Lihat Struk on the success panel
viewReceipt ==
    /\ screen.isCheckoutDialogOpen
    /\ screen.isTransactionComplete
    /\ screen' = [screen EXCEPT !.isReceiptDialogOpen = TRUE,
                                !.isCheckoutDialogOpen = FALSE]
    /\ UNCHANGED <<store, day, call, initialStock, cart, read, views>>

\* showReceipt(transaction), from the list of transactions
showReceipt ==
    /\ ~screen.isReceiptDialogOpen
    /\ Len(pos_transactions) > 0
    /\ screen' = [screen EXCEPT !.isReceiptDialogOpen = TRUE]
    /\ UNCHANGED <<store, day, call, initialStock, cart, read, views>>

\* The receipt dialog is closed: after a completed transaction that is
\* completeTransaction().
closeReceiptDialog ==
    /\ screen.isReceiptDialogOpen
    /\ IF screen.isTransactionComplete
       THEN /\ screen' = [Completed(screen) EXCEPT !.isReceiptDialogOpen = FALSE]
            /\ cart' = <<>>
       ELSE /\ screen' = [screen EXCEPT !.isReceiptDialogOpen = FALSE]
            /\ UNCHANGED cart
    /\ UNCHANGED <<store, day, call, initialStock, read, views>>

\* the amounts typed into the cash field
MaxCash == 3

\* One screen and its first checkout, paid by card or with cash in hand: no
\* other call overlaps it, so its transaction is never retried.  The screen
\* lists the products it loaded; one may have been deleted since.
NextCart ==
    \/ \E p \in ProductIds : addToCart(p)
    \/ \E p \in ProductIds : removeFromCart(p)
    \/ \E p \in ProductIds, change \in {-1, 1} : updateQuantity(p, change)
    \/ clearCart
    \/ loadCashiers
    \/ handleCheckout
    \/ setPaymentMethod("card")
    \/ processPayment(1)
    \/ paymentSettled
    \/ completeTransaction
    \/ \E c \in Calls : GetRefused(c)
    \/ \E c \in Calls : GetNotFound(c)
    \/ \E c \in Calls : GetInsufficient(c)
    \/ \E c \in Calls : GetAndUpdate(c)
    \/ \E c \in Calls : Commit(c)
    \/ \E c \in Calls : AddTransaction(c)
    \/ \E c \in Calls : AddFinancial(c)
    \/ \E c \in Calls : GetDaily(c)
    \/ \E c \in Calls : SetDaily(c)
    \/ \E c \in Calls : RecordFailure(c)

SpecCart == Init /\ [][NextCart]_vars


\* C13: whatever addToCart, updateQuantity, removeFromCart and clearCart did,
\* every cart line has a quantity of at least 1 and a totalPrice of quantity
\* times price; and the totalAmount of every Transaction handed to
\* processPOSTransaction, and of every Transaction it persisted, is the sum
\* of the totalPrice of its items.
C13_CartInvariants ==
    /\ \A i \in 1..Len(cart) :
          /\ cart[i].quantity >= 1
          /\ cart[i].totalPrice = cart[i].quantity * cart[i].price
    /\ \A c \in Calls : call[c].pc # "idle" =>
          call[c].transaction.totalAmount = cartTotal(call[c].transaction.items)
    /\ \A i \in 1..Len(pos_transactions) :
          pos_transactions[i].totalAmount = cartTotal(pos_transactions[i].items)

\* A line of two was raised and lowered in a cart of two lines, and a
\* Transaction of a line of two is persisted.
C13_Witness ==
    /\ Len(cart) = 2
    /\ \E i \in 1..Len(cart) : cart[i].quantity = 2 /\ cart[i].totalPrice = 4
    /\ \E i \in 1..Len(pos_transactions) :
          /\ pos_transactions[i].totalAmount = 4
          /\ pos_transactions[i].items[1].quantity = 2


\* ------------------------------------------------- the read operations
\*
\* Time is counted in instants, TicksPerDay of them a day: the first of a
\* day is 00:00:00.000 and the last is 23:59:59.999.  Dates are day numbers,
\* months are MonthDays days long, and every clock is in one time zone.

TicksPerDay == 3
MonthDays   == 2
NumMonths   == 2
MaxDocs     == 2

QueryDays == 1..(MonthDays * NumMonths)
Months    == 1..NumMonths

\* setHours(0, 0, 0, 0) of a date
StartOfDay(d) == (d - 1) * TicksPerDay
\* setHours(23, 59, 59, 999) of a date
EndOfDay(d)   == StartOfDay(d) + TicksPerDay - 1
\* the date an instant lies in
DayOf(t)      == (t \div TicksPerDay) + 1
\* date.setHours(...): the same date at another time of the day
setHours(t, tod) == StartOfDay(DayOf(t)) + tod
\* new Date(date): a Date of day d, at some time of the day
DateOf(d)     == StartOfDay(d) + 1
\* the month of a date, and its first and last date
MonthOf(d)    == ((d - 1) \div MonthDays) + 1
FirstDay(m)   == (m - 1) * MonthDays + 1
LastDay(m)    == m * MonthDays

\* A document of pos_transactions as any client may have written it: each
\* of timestamp, items and totalAmount may be missing.
StoredTransactions ==
    [timestamp     : (StartOfDay(1)..EndOfDay(MaxDay)) \cup {Undefined},
     totalAmount   : (1..MaxAmount) \cup {Undefined},
     items         : {"array", "undefined"},
     paymentMethod : {"cash", "card"}]

\* A document of daily_sales as updateDailySales writes it: its timestamp
\* is the instant of its last update, on its date or, when the call passed
\* midnight, on the next.
StoredDailySales(d) ==
    {NoDailySales} \cup
    [exists : {TRUE}, date : {d}, totalSales : {1}, transactionCount : {1},
     timestamp : StartOfDay(d)..EndOfDay(d + 1)]

\* sequence s without its last element
Front(s) == SubSeq(s, 1, Len(s) - 1)

\* x put into the sorted sequence s, after every element whose key is not
\* greater: Array.prototype.sort is stable.
RECURSIVE Insert(_, _, _)
Insert(x, s, key) ==
    IF s = <<>> THEN <<x>>
    ELSE IF key[s[Len(s)]] <= key[x] THEN Append(s, x)
    ELSE Append(Insert(x, Front(s), key), s[Len(s)])

\* s sorted by ascending key, equal keys in their order in s
RECURSIVE SortAsc(_, _)
SortAsc(s, key) ==
    IF s = <<>> THEN <<>>
    ELSE Insert(s[Len(s)], SortAsc(Front(s), key), key)

\* s sorted by descending key: sort((a, b) => key(b) - key(a))
SortDesc(s, key) == SortAsc(s, [i \in DOMAIN key |-> 0 - key[i]])

\* s backwards
RECURSIVE Reverse(_)
Reverse(s) == IF s = <<>> THEN <<>> ELSE Append(Reverse(Tail(s)), Head(s))

Limit_All(s, n) == s

\* first n elements of s: limit(n)
Limit(s, n) == SubSeq(s, 1, IF Len(s) < n THEN Len(s) ELSE n)


\* The ids of the documents of pos_transactions, and of daily_sales (its
\* date), in the order of the ids.
TransactionIds == [i \in 1..Len(pos_transactions) |-> i]
DailySalesIds  == [i \in 1..Cardinality(DOMAIN daily_sales) |-> i]

\* data.timestamp of every document
TransactionTimestamp == [i \in 1..Len(pos_transactions) |-> pos_transactions[i].timestamp]
DailySalesTimestamp  ==
    [d \in DOMAIN daily_sales |->
        IF daily_sales[d].exists THEN daily_sales[d].timestamp ELSE Undefined]

\* where('timestamp', '>=', lo), where('timestamp', '<=', hi): the documents
\* that have a timestamp in the range, by timestamp and then by id.
TimestampQuery(ids, timestamp, lo, hi) ==
    SortAsc(SelectSeq(ids, LAMBDA i : /\ timestamp[i] # Undefined
                                      /\ lo <= timestamp[i]
                                      /\ timestamp[i] <= hi),
            timestamp)

\* startDate.setHours(0, 0, 0, 0); endDate.setHours(23, 59, 59, 999): the
\* two arguments are references, and may be one and the same Date.
RangeBounds(startDate, endDate, same) ==
    LET endRef == IF same THEN 1 ELSE 2
        given  == IF same THEN <<startDate>> ELSE <<startDate, endDate>>
        first  == [given EXCEPT ![1] = setHours(@, 0)]
        second == [first EXCEPT ![endRef] = setHours(@, TicksPerDay - 1)]
    IN  [startTimestamp |-> second[1], endTimestamp |-> second[endRef]]

\* if (!data.timestamp) skip
HasTimestamp(i) == pos_transactions[i].timestamp # Undefined

\* data.timestamp && Array.isArray(data.items) &&
\* typeof data.totalAmount === 'number'
WellFormed(i) ==
    /\ pos_transactions[i].timestamp # Undefined
    /\ pos_transactions[i].items = "array"
    /\ pos_transactions[i].totalAmount # Undefined

\* What getPOSTransactionsByDateRange returns: the ids of the transactions.
TransactionsByDateRange(startDate, endDate, same, failed) ==
    LET b == RangeBounds(startDate, endDate, same)
        snapshot == TimestampQuery(TransactionIds, TransactionTimestamp,
                                   b.startTimestamp, b.endTimestamp)
    IN  IF failed THEN <<>>
        ELSE SortDesc(SelectSeq(snapshot, HasTimestamp), TransactionTimestamp)

\* getPOSTransactionsByDateRange(startDate, endDate): a failure of getDocs
\* is caught and [] is returned.
getPOSTransactionsByDateRange(startDate, endDate, same, failed) ==
    /\ read' = [op |-> "getPOSTransactionsByDateRange",
                args |-> [startDate |-> startDate, endDate |-> endDate, same |-> same],
                failed |-> failed, status |-> "returned",
                result |-> TransactionsByDateRange(startDate, endDate, same, failed)]
    /\ UNCHANGED <<store, day, call, initialStock, cart, screen, views>>

\* a + b of two numbers, either of which may be undefined or NaN
Plus(a, b) ==
    IF a \in {NaN, Undefined} \/ b \in {NaN, Undefined} THEN NaN ELSE a + b

\* x || 0
OrZero(x) == IF x \in {NaN, Undefined, 0} THEN 0 ELSE x

\* transactions.reduce((sum, t) => sum + t.totalAmount, 0)
RECURSIVE TotalSales(_, _)
TotalSales(ids, sum) ==
    IF ids = <<>> THEN sum
    ELSE TotalSales(Tail(ids), Plus(sum, pos_transactions[Head(ids)].totalAmount))

\* no key yet: const paymentMethodCounts = {}
NoMethods == [method \in {"cash", "card"} |-> Undefined]

\* transactions.forEach(t => { ... }): the counts and totals by method
RECURSIVE ByMethod(_, _)
ByMethod(ids, acc) ==
    IF ids = <<>> THEN acc
    ELSE LET t == pos_transactions[Head(ids)]
             method == t.paymentMethod
         IN  ByMethod(Tail(ids),
                [paymentMethodCounts |->
                    [acc.paymentMethodCounts EXCEPT
                        ![method] = OrZero(@) + 1],
                 paymentMethodTotals |->
                    [acc.paymentMethodTotals EXCEPT
                        ![method] = Plus(OrZero(@), t.totalAmount)]])

\* What getPOSTransactionsSummary returns.
Summary(ids) ==
    LET by == ByMethod(ids, [paymentMethodCounts |-> NoMethods,
                             paymentMethodTotals |-> NoMethods])
    IN  [totalSales |-> TotalSales(ids, 0), transactionCount |-> Len(ids),
         paymentMethodCounts |-> by.paymentMethodCounts,
         paymentMethodTotals |-> by.paymentMethodTotals]

\* getPOSTransactionsSummary(startDate, endDate)
getPOSTransactionsSummary(startDate, endDate, same, failed) ==
    /\ read' = [op |-> "getPOSTransactionsSummary",
                args |-> [startDate |-> startDate, endDate |-> endDate, same |-> same],
                failed |-> failed, status |-> "returned",
                result |-> Summary(TransactionsByDateRange(startDate, endDate, same, failed))]
    /\ UNCHANGED <<store, day, call, initialStock, cart, screen, views>>

\* usePOSTransactions(date): the snapshot listener delivers the documents of
\* the day, or the error callback sets the error state.
usePOSTransactions(date, failed) ==
    /\ LET startOfDay == setHours(DateOf(date), 0)
           nextDay    == startOfDay + TicksPerDay
           snapshot   == TimestampQuery(TransactionIds, TransactionTimestamp,
                                        startOfDay, nextDay - 1)
       IN  read' = [op |-> "usePOSTransactions", args |-> [date |-> date],
                    failed |-> failed,
                    status |-> IF failed THEN "error" ELSE "returned",
                    result |-> IF failed THEN <<>>
                               ELSE SortDesc(SelectSeq(snapshot, WellFormed),
                                             TransactionTimestamp)]
    /\ UNCHANGED <<store, day, call, initialStock, cart, screen, views>>


\* catch (error) { console.error(...); throw error; }
Rethrown(failed) == IF failed THEN "thrown" ELSE "returned"

getDailySales_Swallowed(date, failed) ==
    /\ read' = [op |-> "getDailySales", args |-> [date |-> date],
                failed |-> failed, status |-> "returned",
                result |-> IF failed THEN NoDailySales ELSE daily_sales[date]]
    /\ UNCHANGED <<store, day, call, initialStock, cart, screen, views>>

\* getDailySales(date): the aggregate of the date, or null (NoDailySales).
getDailySales(date, failed) ==
    /\ read' = [op |-> "getDailySales", args |-> [date |-> date],
                failed |-> failed, status |-> Rethrown(failed),
                result |-> IF failed THEN NoDailySales ELSE daily_sales[date]]
    /\ UNCHANGED <<store, day, call, initialStock, cart, screen, views>>

\* What getMonthlySales returns: the dates of the aggregates.  startDate is
\* new Date(year, month - 1, 1) and endDate is new Date(year, month, 0), the
\* first and the last day of the month, both at 00:00:00.000.
MonthlySales(month) ==
    LET startTimestamp == StartOfDay(FirstDay(month))
        endTimestamp   == StartOfDay(LastDay(month))
    IN  TimestampQuery(DailySalesIds, DailySalesTimestamp,
                       startTimestamp, endTimestamp)

\* getMonthlySales(year, month)
getMonthlySales(month, failed) ==
    /\ read' = [op |-> "getMonthlySales", args |-> [month |-> month],
                failed |-> failed, status |-> Rethrown(failed),
                result |-> IF failed THEN <<>> ELSE MonthlySales(month)]
    /\ UNCHANGED <<store, day, call, initialStock, cart, screen, views>>

\* What getRecentDailySales returns: where('timestamp', '>=', now less
\* limitCount days), orderBy('timestamp', 'desc'), limit(limitCount), and
\* then sorted by ascending timestamp.
RecentDailySales(limitCount, now) ==
    LET startTimestamp == now - limitCount * TicksPerDay
        descending == Reverse(TimestampQuery(DailySalesIds, DailySalesTimestamp,
                                             startTimestamp, now))
    IN  SortAsc(Limit(descending, limitCount), DailySalesTimestamp)

\* the instant of the last update of any aggregate
RECURSIVE MaxOf(_)
MaxOf(S) ==
    IF S = {} THEN 0
    ELSE LET x == CHOOSE x \in S : TRUE
             m == MaxOf(S \ {x})
         IN  IF x > m THEN x ELSE m

LastUpdate == MaxOf({DailySalesTimestamp[d] : d \in DOMAIN daily_sales})

\* getRecentDailySales(limitCount), called at the instant now
getRecentDailySales(limitCount, now, failed) ==
    /\ now >= LastUpdate
    /\ read' = [op |-> "getRecentDailySales",
                args |-> [limitCount |-> limitCount, now |-> now],
                failed |-> failed, status |-> Rethrown(failed),
                result |-> IF failed THEN <<>> ELSE RecentDailySales(limitCount, now)]
    /\ UNCHANGED <<store, day, call, initialStock, cart, screen, views>>

\* The store the read operations find: some documents of pos_transactions,
\* or some aggregates of daily_sales; no checkout is running.
InitQuery ==
    /\ products = [p \in ProductIds |-> [exists |-> p \in Catalog, stock |-> 0,
                                         version |-> IF p \in Catalog THEN 1 ELSE 0]]
    /\ initialStock = [p \in ProductIds |-> 0]
    /\ financial_transactions = <<>>
    /\ day = 1
    /\ call = [c \in Calls |-> IdleCall]
    /\ cart = <<>>
    /\ read = NoRead
    /\ screen = InitialScreen
    /\ hook = InitialHook
    /\ consumer = [k \in Consumers |-> InitialConsumer]
    /\ \/ /\ pos_transactions \in UNION {[1..n -> StoredTransactions] : n \in 0..MaxDocs}
          /\ daily_sales = [d \in QueryDays |-> NoDailySales]
       \/ /\ pos_transactions = <<>>
          /\ \E f \in [QueryDays -> UNION {StoredDailySales(d) : d \in QueryDays}] :
                /\ \A d \in QueryDays : f[d] \in StoredDailySales(d)
                /\ daily_sales = f

\* Each behaviour is one read of the store it found.
NextQuery ==
    \/ \E startDate \in Days, endDate \in Days, failed \in BOOLEAN :
          /\ read = NoRead
          /\ getPOSTransactionsByDateRange(DateOf(startDate), DateOf(endDate), FALSE, failed)
    \/ \E date \in Days, failed \in BOOLEAN :
          /\ read = NoRead
          /\ getPOSTransactionsByDateRange(DateOf(date), DateOf(date), TRUE, failed)
    \/ \E startDate \in Days, endDate \in Days, failed \in BOOLEAN :
          /\ read = NoRead
          /\ getPOSTransactionsSummary(DateOf(startDate), DateOf(endDate), FALSE, failed)
    \/ \E date \in Days, failed \in BOOLEAN :
          /\ read = NoRead
          /\ getPOSTransactionsSummary(DateOf(date), DateOf(date), TRUE, failed)
    \/ \E date \in Days, failed \in BOOLEAN :
          /\ read = NoRead
          /\ usePOSTransactions(date, failed)
    \/ \E date \in QueryDays, failed \in BOOLEAN :
          /\ read = NoRead
          /\ getDailySales(date, failed)
    \/ \E month \in Months, failed \in BOOLEAN :
          /\ read = NoRead
          /\ getMonthlySales(month, failed)
    \/ \E limitCount \in 1..MaxDocs, now \in 0..EndOfDay(MonthDays * NumMonths + 1),
          failed \in BOOLEAN :
          /\ read = NoRead
          /\ getRecentDailySales(limitCount, now, failed)

SpecQuery == InitQuery /\ [][NextQuery]_vars


\* ----------------------------------------- properties of the read side

\* the elements of a sequence
Range(s) == {s[i] : i \in DOMAIN s}

\* s holds no element twice
NoDuplicates(s) == Cardinality(Range(s)) = Len(s)

\* key never rises (falls) along s
Descending(s, key) == \A i \in 1..(Len(s) - 1) : key[s[i]] >= key[s[i + 1]]
Ascending(s, key)  == \A i \in 1..(Len(s) - 1) : key[s[i]] <= key[s[i + 1]]

\* the persisted transactions created between two instants, both included
CreatedWithin(lo, hi) ==
    {i \in 1..Len(pos_transactions) :
        /\ pos_transactions[i].timestamp # Undefined
        /\ lo <= pos_transactions[i].timestamp
        /\ pos_transactions[i].timestamp <= hi}

\* C15: for every date d, getPOSTransactionsByDateRange(d, d) returns exactly
\* the persisted transactions created in [d 00:00:00.000, d 23:59:59.999],
\* sorted by descending timestamp, whether the two arguments are two Dates or
\* one and the same Date.
C15_Claimed ==
    (/\ read.op = "getPOSTransactionsByDateRange"
     /\ ~read.failed
     /\ DayOf(read.args.startDate) = DayOf(read.args.endDate)) =>
        LET d == DayOf(read.args.startDate)
        IN  /\ Range(read.result) = CreatedWithin(StartOfDay(d), EndOfDay(d))
            /\ NoDuplicates(read.result)
            /\ Descending(read.result, TransactionTimestamp)

\* the sum of the totals (counts) of the payment methods that have one
SumByMethod(by) ==
    Plus(IF by["cash"] = Undefined THEN 0 ELSE by["cash"],
         IF by["card"] = Undefined THEN 0 ELSE by["card"])

\* the sum of the totalAmount of a set of transactions
RECURSIVE SumOfTotalAmount(_)
SumOfTotalAmount(S) ==
    IF S = {} THEN 0
    ELSE LET i == CHOOSE i \in S : TRUE
         IN  Plus(pos_transactions[i].totalAmount, SumOfTotalAmount(S \ {i}))

\* C16: for every range, the summary has totalSales equal to the sum of
\* totalAmount and transactionCount equal to the length of what
\* getPOSTransactionsByDateRange returns for the range, the totals by payment
\* method sum to totalSales and the counts by payment method sum to
\* transactionCount.
C16_Claimed ==
    read.op = "getPOSTransactionsSummary" =>
        LET transactions == TransactionsByDateRange(read.args.startDate,
                               read.args.endDate, read.args.same, read.failed)
        IN  /\ read.result.totalSales = SumOfTotalAmount(Range(transactions))
            /\ read.result.transactionCount = Len(transactions)
            /\ SumByMethod(read.result.paymentMethodTotals) = read.result.totalSales
            /\ SumByMethod(read.result.paymentMethodCounts) = read.result.transactionCount

\* the dates of a month that have an aggregate, in ascending order
AggregatesOfMonth(month) ==
    SelectSeq(DailySalesIds,
              LAMBDA d : daily_sales[d].exists /\ MonthOf(d) = month)

\* C17: getMonthlySales returns every aggregate whose date lies in the month,
\* first and last day included, none of another month, by ascending date.
C17_Claimed ==
    (read.op = "getMonthlySales" /\ ~read.failed) =>
        read.result = AggregatesOfMonth(read.args.month)


\* the dates that have an aggregate
WithAggregate == {d \in DOMAIN daily_sales : daily_sales[d].exists}

\* the n greatest of a set of dates
MostRecent(S, n) == {d \in S : Cardinality({e \in S : e > d}) < n}

\* the date of every aggregate
DailySalesDate == [d \in DOMAIN daily_sales |-> d]

UpdatedWithin(n, now) ==
    {d \in WithAggregate : /\ daily_sales[d].timestamp >= now - n * TicksPerDay
                           /\ daily_sales[d].timestamp <= now}

Matched ==
    IF read.op = "usePOSTransactions"
    THEN CreatedWithin(StartOfDay(read.args.date), EndOfDay(read.args.date))
    ELSE LET b == RangeBounds(read.args.startDate, read.args.endDate, read.args.same)
         IN  CreatedWithin(b.startTimestamp, b.endTimestamp)

\* C19: in getPOSTransactionsByDateRange and in the usePOSTransactions
\* subscription, a document missing a required field is skipped, the read
\* neither throws nor enters the error state, and every well-formed document
\* of the result set is returned.
C19_Claimed ==
    (/\ read.op \in {"getPOSTransactionsByDateRange", "usePOSTransactions"}
     /\ ~read.failed) =>
        /\ read.status = "returned"
        /\ Range(read.result) = {i \in Matched : WellFormed(i)}

\* what a read operation returns when it found nothing
EmptyResult(op) ==
    IF op = "getDailySales" THEN NoDailySales
    ELSE IF op = "getPOSTransactionsSummary" THEN Summary(<<>>)
    ELSE <<>>

\* the read operations of the services
ReadOperations ==
    {"getDailySales", "getMonthlySales", "getRecentDailySales",
     "getPOSTransactionsByDateRange", "getPOSTransactionsSummary"}

\* C20 as claimed: a store failure during any read operation is caught and
\* turned into an empty result, never thrown to the caller.
C20_Claimed ==
    (read.op \in ReadOperations /\ read.failed) =>
        /\ read.status = "returned"
        /\ read.result = EmptyResult(read.op)

\* C20: a store failure during getPOSTransactionsByDateRange or
\* getPOSTransactionsSummary is caught and turned into an empty result (an
\* empty list, a summary of zero transactions); a store failure during
\* getDailySales, getMonthlySales or getRecentDailySales is logged and thrown
\* to the caller.
C20_ReadFailures ==
    (read.op \in ReadOperations /\ read.failed) =>
        IF read.op \in {"getPOSTransactionsByDateRange", "getPOSTransactionsSummary"}
        THEN /\ read.status = "returned"
             /\ read.result = EmptyResult(read.op)
        ELSE read.status = "thrown"

\* The read of an aggregate that exists failed and was thrown.
C20_Witness ==
    /\ read.op = "getDailySales"
    /\ read.failed
    /\ read.status = "thrown"
    /\ daily_sales[read.args.date].exists


\* ------------------------------------- further properties of the service

\* C21 (as claimed): in the stock phase every product read of every cart
\* item is made before the first stock write is staged: once a write is
\* staged no item is left to read, and no read is issued after a write.
C21_Claimed ==
    \A c \in Calls :
        /\ (call[c].pc = "txn" /\ call[c].writes # <<>>) =>
              call[c].item > Len(call[c].transaction.items)
        /\ call[c].error # "reads_before_writes"

\* C22: every Financial Ledger Entry references the id of a Transaction
\* record that is in the store, has category 'sales' and type 'income', and
\* has the totalAmount of that Transaction as its amount; no entry has an
\* empty or a dangling transaction id.
C22_LedgerReferences ==
    \A j \in 1..Len(financial_transactions) :
        LET e == financial_transactions[j]
        IN  /\ e.transactionId # EmptyId
            /\ e.category = "sales"
            /\ e.type = "income"
            /\ \E i \in 1..Len(pos_transactions) :
                  /\ pos_transactions[i].id = e.transactionId
                  /\ pos_transactions[i].totalAmount = e.amount

\* A Transaction write failed, and a later call wrote its Transaction and
\* its Financial Ledger Entry, with another amount than the first.
C22_Witness ==
    /\ \E c \in Calls : call[c].failedAt = "addTransaction"
    /\ \E j \in 1..Len(financial_transactions), c \in Calls :
          /\ financial_transactions[j].amount = MaxAmount
          /\ call[c].transaction.totalAmount # MaxAmount

\* The cart of call c names a product in two or more of its items.
HasDuplicates(c) ==
    \E i \in DOMAIN Items(c), j \in DOMAIN Items(c) :
        i # j /\ Items(c)[i].product_id = Items(c)[j].product_id

C27_Claimed ==
    \A d \in Days :
        /\ daily_sales[d].transactionCount <= Cardinality(TransactionsOn(d))
        /\ daily_sales[d].totalSales <= SumTotalAmount(TransactionsOn(d))

\* C28 (as claimed): within one call the date string of the Transaction
\* record, the date of the Financial Ledger Entry and the date key of the
\* Daily Aggregate are one calendar day, also when midnight passes between
\* the steps of the call.
C28_Claimed ==
    \A c \in Calls :
        /\ \A i \in TransactionsBy(c) :
              pos_transactions[i].dateString = call[c].dateString
        /\ \A j \in FinancialsBy(c) :
              financial_transactions[j].date = call[c].dateString
        /\ call[c].wroteDaily => daily_sales[call[c].dateString].exists


\* ------------------------------------------------ checkout on the screen

\* the products the screen of this specification lists
Listed == {"P"}

\* One screen, every dialog and every way of paying, checkout after
\* checkout: its calls never overlap, and a cart of one product is never
\* refused a read.
NextPay ==
    \/ \E p \in Listed : addToCart(p)
    \/ \E p \in Listed : removeFromCart(p)
    \/ \E p \in Listed, change \in {-1, 1} : updateQuantity(p, change)
    \/ clearCart
    \/ loadCashiers
    \/ handleCheckout
    \/ closeCheckoutDialog
    \/ \E method \in {"cash", "card"} : setPaymentMethod(method)
    \/ \E received \in (0..MaxCash) \cup {EmptyInput} : setCashReceived(received)
    \/ \E c \in Calls : processPayment(c)
    \/ paymentSettled
    \/ receiptTimerFires
    \/ completeTransaction
    \/ viewReceipt
    \/ showReceipt
    \/ closeReceiptDialog
    \/ \E c \in Calls : GetInsufficient(c)
    \/ \E c \in Calls : GetAndUpdate(c)
    \/ \E c \in Calls : Commit(c)
    \/ \E c \in Calls : AddTransaction(c)
    \/ \E c \in Calls : AddFinancial(c)
    \/ \E c \in Calls : GetDaily(c)
    \/ \E c \in Calls : SetDaily(c)
    \/ \E c \in Calls : RecordFailure(c)

SpecPay == Init /\ [][NextPay]_vars


\* Call c is made in this step.
Submitted(c) == call[c].pc = "idle" /\ call'[c].pc # "idle"

\* C24: every transaction processPayment submits for cash has cashReceived
\* >= totalAmount and change = cashReceived - totalAmount (>= 0), and no call
\* is made when cashReceived is not a number or is below the total; a
\* transaction submitted for another payment method has neither cashReceived
\* nor change.
C24_CashPayment ==
    [][\A c \in Calls : Submitted(c) =>
          LET t == call'[c].transaction
          IN  /\ ~InsufficientCash(screen.paymentMethod, screen.cashReceived,
                                   cartTotal(cart))
              /\ t.paymentMethod = screen.paymentMethod
              /\ t.totalAmount = cartTotal(cart)
              /\ IF t.paymentMethod = "cash"
                 THEN /\ IsNumber(t.cashReceived)
                      /\ t.cashReceived >= t.totalAmount
                      /\ t.change = t.cashReceived - t.totalAmount
                      /\ t.change >= 0
                 ELSE /\ t.cashReceived = Undefined
                      /\ t.change = Undefined]_vars

\* A cash payment with change and a card payment were submitted.
C24_Witness ==
    /\ \E c \in Calls :
          /\ call[c].pc # "idle"
          /\ call[c].transaction.paymentMethod = "cash"
          /\ call[c].transaction.change > 0
          /\ call[c].transaction.totalAmount = 2
    /\ \E c \in Calls :
          /\ call[c].pc # "idle"
          /\ call[c].transaction.paymentMethod = "card"

\* C29: on the POS screen at most one processPOSTransaction call is in
\* flight at a time; a call is made only when no call is awaited, and, after
\* a call has returned normally, only once completeTransaction has emptied
\* the cart: a cart can be submitted again only after a call that threw.
C29_OneCallPerCart ==
    [][/\ \A a \in Calls, b \in Calls :
             a # b => ~(InFlight(a)' /\ InFlight(b)')
       /\ \A c \in Calls : Submitted(c) =>
             /\ \A o \in Calls : ~InFlight(o)
             /\ screen.pending = 0
             /\ screen.lastOutcome # "returned"]_vars

\* A cart was submitted again after a call that threw, the second call
\* returned, and completeTransaction emptied the cart.
C29_Witness ==
    /\ call[1].pc = "thrown"
    /\ call[2].pc = "returned"
    /\ screen.lastOutcome = "completed"
    /\ cart = <<>>

\* C23: a persisted Transaction stays in the collection with every field
\* as it was written, whatever the screen and the service do afterwards;
\* a later sale of the same product changes the Product's stock and not
\* the items, prices and line totals of the earlier Transaction.
C23_Immutable ==
    [][\A i \in 1..Len(pos_transactions) :
          /\ i <= Len(pos_transactions')
          /\ pos_transactions'[i] = pos_transactions[i]]_vars

\* The first sale is on record with the items of its cart, and a second
\* sale of the same product, made after it, has lowered the stock again.
C23_Witness ==
    /\ Len(pos_transactions) >= 1
    /\ call[2].committed
    /\ LET first == pos_transactions[1]
       IN  /\ first.by = 1
           /\ first.items = call[1].transaction.items
           /\ first.items[1].product_id = "P"
           /\ first.items[1].totalPrice = first.items[1].quantity * Price["P"]
           /\ call[2].transaction.items[1].product_id = "P"
           /\ products["P"].stock = initialStock["P"] - first.items[1].quantity
                                      - call[2].transaction.items[1].quantity

\* ------------------------------------------------- useDailySales(date)

MaxClock   == 3      \* instants of Date.now(), five seconds apart
MaxFetches == 3      \* getDailySales calls the hook makes

\* 10000 ms, in instants
TenSeconds == 2

\* now - lastFetchTime < 10000 && lastFetchTime > 0
RecentlyFetched(now, lastFetchTime) ==
    now - lastFetchTime < TenSeconds /\ lastFetchTime > 0

\* The screen passes another date to the hook; the effect is due again.
setDate(date) ==
    /\ ~hook.effect
    /\ hook.date # date
    /\ hook' = [hook EXCEPT !.date = date, !.effect = TRUE]
    /\ UNCHANGED <<store, day, call, initialStock, cart, read, screen, consumer>>

\* The effect: nothing when data was fetched within the last ten seconds,
\* else fetchSales() sets loading and calls getDailySales(date).
runEffect ==
    /\ hook.effect
    /\ IF RecentlyFetched(hook.now, hook.lastFetchTime)
       THEN hook' = [hook EXCEPT !.effect = FALSE]
       ELSE /\ hook.fetched < MaxFetches
            /\ hook' = [hook EXCEPT
                  !.effect  = FALSE,
                  !.loading = TRUE,
                  !.fetched = @ + 1,
                  !.fetches = @ \cup {[id |-> hook.fetched + 1, date |-> hook.date]}]
    /\ UNCHANGED <<store, day, call, initialStock, cart, read, screen, consumer>>

\* fetchSales() after the await: setSales(data) and setLastFetchTime(Date.now())
\* when getDailySales returned, setError when it threw; finally
\* setLoading(false).  A changed lastFetchTime makes the effect due.
fetchSettles(f, failed) ==
    /\ f \in hook.fetches
    /\ hook' = IF Rethrown(failed) = "thrown"
               THEN [hook EXCEPT !.fetches = @ \ {f}, !.error = TRUE,
                                 !.loading = FALSE]
               ELSE [hook EXCEPT !.fetches = @ \ {f},
                                 !.sales = daily_sales[f.date],
                                 !.lastFetchTime = hook.now,
                                 !.effect = (hook.effect \/ hook.lastFetchTime # hook.now),
                                 !.loading = FALSE]
    /\ UNCHANGED <<store, day, call, initialStock, cart, read, screen, consumer>>

\* Five seconds pass; a due effect has run before.
timePasses ==
    /\ ~hook.effect
    /\ hook.now < MaxClock
    /\ hook' = [hook EXCEPT !.now = @ + 1]
    /\ UNCHANGED <<store, day, call, initialStock, cart, read, screen, consumer>>

\* The store the hook reads: every date has an aggregate or none.
InitHook ==
    /\ products = [p \in ProductIds |-> [exists |-> p \in Catalog, stock |-> 0,
                                         version |-> IF p \in Catalog THEN 1 ELSE 0]]
    /\ initialStock = [p \in ProductIds |-> 0]
    /\ pos_transactions = <<>>
    /\ financial_transactions = <<>>
    /\ daily_sales \in [Days -> {NoDailySales,
                                 [exists |-> TRUE, totalSales |-> 1, transactionCount |-> 1],
                                 [exists |-> TRUE, totalSales |-> 2, transactionCount |-> 1]}]
    /\ day = 1
    /\ call = [c \in Calls |-> IdleCall]
    /\ cart = <<>>
    /\ read = NoRead
    /\ screen = InitialScreen
    /\ hook = InitialHook
    /\ consumer = [k \in Consumers |-> InitialConsumer]

NextHook ==
    \/ \E date \in Days : setDate(date)
    \/ runEffect
    \/ \E f \in hook.fetches, failed \in BOOLEAN : fetchSettles(f, failed)
    \/ timePasses

SpecHook == InitHook /\ [][NextHook]_vars

\* C30: once a date was selected and every fetch settled without an error,
\* useDailySales shows the aggregate of the selected date (null when there
\* is none) and loading is false.
C30_Claimed ==
    (hook.fetched > 0 /\ hook.fetches = {} /\ ~hook.effect /\ ~hook.error)
        => (hook.sales = daily_sales[hook.date] /\ ~hook.loading)

\* -------------------------------------------------- live subscriptions

MaxSubscriptions == 3      \* onSnapshot calls of a consumer
DepValues        == 1..2   \* values of an effect's dependencies

\* Consumers whose effect has dependencies: [date] and
\* [selectedCashier, onSelectCashier]; CashierManagement has [].
WithDeps == {"usePOSTransactions", "CashierSelector"}

\* usePOSTransactions reads the query once with getDocs beside the listener.
WithCheck == {"usePOSTransactions"}

Ids(subscriptions) == {sub.id : sub \in subscriptions}

Cleanup_Leaks(active) == active

\* return () => unsubscribe(): after the cleanup no subscription is left.
Cleanup(active) == {}

\* The body of the effect for consumer k in state s: onSnapshot(q, ...) for
\* the current dependencies; usePOSTransactions first sets loading, clears
\* the error and starts the getDocs check.
Effect(k, s, deps) ==
    LET id  == s.subscribed + 1
        sub == [id |-> id, deps |-> deps]
        t   == [s EXCEPT !.deps = deps, !.subscribed = id,
                         !.active = @ \cup {sub}]
    IN  IF k \in WithCheck
        THEN [t EXCEPT !.loading = TRUE, !.reported = FALSE,
                       !.checks = @ \cup {id}]
        ELSE t

\* Each behaviour follows one consumer.
Others(k) == \A j \in Consumers \ {k} : consumer[j] = InitialConsumer

\* The consumer is mounted with fresh state and its effect runs.
mount(k, deps) ==
    /\ Others(k)
    /\ ~consumer[k].mounted
    /\ consumer[k].subscribed < MaxSubscriptions
    /\ consumer' = [consumer EXCEPT ![k] =
          Effect(k, [InitialConsumer EXCEPT !.mounted = TRUE,
                                            !.subscribed = consumer[k].subscribed,
                                            !.ended = consumer[k].ended], deps)]
    /\ UNCHANGED <<store, day, call, initialStock, cart, read, screen, hook>>

\* The dependencies change: the cleanup of the last effect, then the effect.
changeDeps(k, deps) ==
    /\ k \in WithDeps
    /\ consumer[k].mounted
    /\ consumer[k].deps # deps
    /\ consumer[k].subscribed < MaxSubscriptions
    /\ consumer' = [consumer EXCEPT ![k] =
          Effect(k, [@ EXCEPT !.active = Cleanup(@)], deps)]
    /\ UNCHANGED <<store, day, call, initialStock, cart, read, screen, hook>>

\* The consumer is torn down: the cleanup runs; what a getDocs check does
\* afterwards changes no state.
unmount(k) ==
    /\ consumer[k].mounted
    /\ consumer' = [consumer EXCEPT ![k].mounted = FALSE,
                                    ![k].active = Cleanup(@),
                                    ![k].checks = {}]
    /\ UNCHANGED <<store, day, call, initialStock, cart, read, screen, hook>>

\* A subscription that is not unsubscribed delivers a snapshot: the
\* documents are shown and loading ends.
snapshot(k, sub) ==
    /\ sub \in consumer[k].active
    /\ consumer' = [consumer EXCEPT ![k].shown = sub.id, ![k].loading = FALSE]
    /\ UNCHANGED <<store, day, call, initialStock, cart, read, screen, hook>>

\* The error callback of a subscription: setError or toast, and
\* setLoading(false); the listener has ended.
deliveryError(k, sub) ==
    /\ sub \in consumer[k].active
    /\ consumer' = [consumer EXCEPT ![k].active = @ \ {sub},
                                    ![k].ended = @ \cup {sub.id},
                                    ![k].reported = TRUE,
                                    ![k].loading = FALSE]
    /\ UNCHANGED <<store, day, call, initialStock, cart, read, screen, hook>>

\* getDocs(q).then(...): an empty result empties the list and ends loading,
\* whichever query the listener has by then.
checkSettles(k, id, empty) ==
    /\ k \in WithCheck
    /\ id \in consumer[k].checks
    /\ consumer' = [consumer EXCEPT
          ![k].checks  = @ \ {id},
          ![k].shown   = IF empty THEN 0 ELSE @,
          ![k].loading = IF empty THEN FALSE ELSE @]
    /\ UNCHANGED <<store, day, call, initialStock, cart, read, screen, hook>>

NextSubscriptions ==
    \/ \E k \in Consumers, deps \in DepValues : mount(k, deps)
    \/ \E k \in Consumers, deps \in DepValues : changeDeps(k, deps)
    \/ \E k \in Consumers : unmount(k)
    \/ \E k \in Consumers : \E sub \in consumer[k].active : snapshot(k, sub)
    \/ \E k \in Consumers : \E sub \in consumer[k].active : deliveryError(k, sub)
    \/ \E k \in Consumers : \E id \in consumer[k].checks, empty \in BOOLEAN :
          checkSettles(k, id, empty)

SpecSubscriptions == Init /\ [][NextSubscriptions]_vars

\* C25: a consumer has at most one subscription that is not cancelled, none
\* once it is torn down, and only for its current parameters; the documents
\* it shows change to those of a subscription only while that subscription
\* is not cancelled; a delivery error is reported and starts no subscription,
\* and a subscription is made only at a mount or a change of parameters.
C25_Subscriptions ==
    [][\A k \in Consumers :
          LET s == consumer[k]
              t == consumer'[k]
          IN  /\ Cardinality(t.active) <= 1
              /\ ~t.mounted => t.active = {}
              /\ \A sub \in t.active : sub.deps = t.deps
              /\ (t.shown # s.shown /\ t.shown # 0) => t.shown \in Ids(s.active)
              /\ t.ended # s.ended =>
                    /\ t.reported
                    /\ t.subscribed = s.subscribed
                    /\ t.active = {}
              /\ t.subscribed # s.subscribed =>
                    (~s.mounted \/ t.deps # s.deps)]_vars

\* usePOSTransactions changed its date twice and shows the documents of its
\* third subscription, the only one left; an earlier one ended by an error.
C25_Witness ==
    LET s == consumer["usePOSTransactions"]
    IN  /\ s.mounted
        /\ s.subscribed = 3
        /\ s.active = {[id |-> 3, deps |-> s.deps]}
        /\ s.shown = 3
        /\ s.ended # {}
        /\ ~s.reported

=========================================================================
